---------------------------- MODULE Spec2Model ----------------------------
(* A model of the SafeCircle backend, src/server/index.js: the rate        *)
(* limiter, the risk-assess pipeline (provider or fallback heuristic), the *)
(* memory record and its file, the text-to-speech proxy and the GET        *)
(* endpoints.                                                              *)
EXTENDS Integers, Sequences, FiniteSets, TLC

VARIABLES
    now,             \* Date.now(), in ms since the process started
    rateLimitStore,  \* the Map of line 161: client key -> [count, start]
    MEMORY,          \* the Memory Record of line 63
    memoryFile,      \* the content of memory.json
    env,             \* process.env: the three provider credentials
    pending,         \* handlers suspended at an await, in arrival order
    resp,            \* what the last step sent to a caller (NoResp: nothing)
    window,          \* history: per client key, the window the claims count in
    admitLog,        \* history: admitted requests of the last 60 s, per key
    lastLow,         \* history: the latest request answered with riskLevel LOW
    unreaped         \* history: the limiter's Map had the reaper never run

vars ==
    <<now, rateLimitStore, MEMORY, memoryFile, env, pending, resp, window, admitLog, lastLow,
      unreaped>>

---------------------------------------------------------------------------
(* JavaScript values. A value is a record [t, s, n]: its typeof-like tag,  *)
(* its text and its integer part. A number n + 1/2 is written s = ".5";    *)
(* NaN and the infinities are numbers whose s names them. An array is      *)
(* written by its String() form, which is what Number() reads.             *)

JsUndef == [t |-> "undefined", s |-> "", n |-> 0]
JsNull == [t |-> "null", s |-> "", n |-> 0]
JsBool(b) == [t |-> "boolean", s |-> IF b THEN "true" ELSE "false", n |-> 0]
JsStr(x) == [t |-> "string", s |-> x, n |-> 0]
JsNum(k) == [t |-> "number", s |-> "", n |-> k]
JsHalf(k) == [t |-> "number", s |-> ".5", n |-> k]
JsNaN == [t |-> "number", s |-> "NaN", n |-> 0]
JsInfinity == [t |-> "number", s |-> "Infinity", n |-> 0]
JsArr(x) == [t |-> "array", s |-> x, n |-> 0]

\* An object is a function from its own property names to values.
EmptyObj == [f \in {} |-> JsUndef]

\* o.f
Get(o, f) == IF f \in DOMAIN o THEN o[f] ELSE JsUndef

\* {...o, f: v}
With(o, f, v) == [g \in DOMAIN o \cup {f} |-> IF g = f THEN v ELSE o[g]]

\* !!v
Truthy(v) ==
    CASE v.t = "undefined" -> FALSE
      [] v.t = "null" -> FALSE
      [] v.t = "boolean" -> v.s = "true"
      [] v.t = "number" -> ~(v.s = "NaN" \/ (v.s = "" /\ v.n = 0))
      [] v.t = "string" -> v.s # ""
      [] OTHER -> TRUE

\* v || null
OrNull(v) == IF Truthy(v) THEN v ELSE JsNull

\* Number(text) for the numeric strings the model uses; any other text is NaN.
StringToNumber(x) ==
    CASE x = "" -> JsNum(0)
      [] x = "7" -> JsNum(7)
      [] x = "50" -> JsNum(50)
      [] x = "150" -> JsNum(150)
      [] OTHER -> JsNaN

\* Number(v)
ToNumber(v) ==
    CASE v.t = "number" -> v
      [] v.t = "undefined" -> JsNaN
      [] v.t = "null" -> JsNum(0)
      [] v.t = "boolean" -> JsNum(IF v.s = "true" THEN 1 ELSE 0)
      [] v.t = "string" -> StringToNumber(v.s)
      [] v.t = "array" -> StringToNumber(v.s)
      [] OTHER -> JsNaN

\* isFinite(x) of a number
IsFinite(x) == x.t = "number" /\ x.s \in {"", ".5"}

\* `${v}` for the values a scenario field takes
TemplateString(v) ==
    CASE v.t = "undefined" -> "undefined"
      [] v.t = "null" -> "null"
      [] OTHER -> v.s

---------------------------------------------------------------------------
(* The fallback heuristic, lines 389-431.                                  *)

clamp(v, min, max) == IF v < min THEN min ELSE IF v > max THEN max ELSE v

\* A plausible slip: downtown weighted like industrial.
fallbackScore_downtown20(input) ==
    clamp((IF Get(input, "timeOfDay") = JsStr("night") THEN 25 ELSE 0)
          + (IF Get(input, "userAlone") = JsBool(TRUE) THEN 25 ELSE 0)
          + (IF Get(input, "neighborhoodType") = JsStr("industrial") THEN 20 ELSE 0)
          + (IF Get(input, "neighborhoodType") = JsStr("downtown") THEN 20 ELSE 0)
          + (IF Get(input, "routeLighting") = JsStr("poor") THEN 20 ELSE 0)
          + (IF Get(input, "routeLighting") = JsStr("mixed") THEN 10 ELSE 0),
          0, 100)

\* Lines 394-402: the six additions, then the clamp.
fallbackScore(input) ==
    clamp((IF Get(input, "timeOfDay") = JsStr("night") THEN 25 ELSE 0)
          + (IF Get(input, "userAlone") = JsBool(TRUE) THEN 25 ELSE 0)
          + (IF Get(input, "neighborhoodType") = JsStr("industrial") THEN 20 ELSE 0)
          + (IF Get(input, "neighborhoodType") = JsStr("downtown") THEN 10 ELSE 0)
          + (IF Get(input, "routeLighting") = JsStr("poor") THEN 20 ELSE 0)
          + (IF Get(input, "routeLighting") = JsStr("mixed") THEN 10 ELSE 0),
          0, 100)

\* Lines 404-406.
fallbackLevel(score) ==
    IF score >= 70 THEN "HIGH" ELSE IF score >= 40 THEN "MEDIUM" ELSE "LOW"

\* Line 408.
fallbackReasoning(input) ==
    "Score computed from inputs: timeOfDay=" \o TemplateString(Get(input, "timeOfDay"))
    \o ", userAlone=" \o TemplateString(Get(input, "userAlone"))
    \o ", neighborhoodType=" \o TemplateString(Get(input, "neighborhoodType"))
    \o ", routeLighting=" \o TemplateString(Get(input, "routeLighting"))

\* Lines 410-415.
fallbackGuardianMessage(riskLevel) ==
    IF riskLevel = "HIGH"
    THEN "High risk detected. Stay alert and consider contacting someone you trust."
    ELSE IF riskLevel = "MEDIUM"
    THEN "Moderate risk detected. Stay aware of your surroundings."
    ELSE "Low risk detected. Exercise normal caution."

\* Lines 417-422.
fallbackSaferAction(riskLevel) ==
    IF riskLevel = "HIGH"
    THEN "Avoid the route if possible, choose a well-lit path, or ask someone to accompany you."
    ELSE IF riskLevel = "MEDIUM"
    THEN "Prefer well-lit routes and stay in populated areas."
    ELSE "Proceed but remain aware of surroundings."

fallbackRisk(input) ==
    LET score == fallbackScore(input)
        riskLevel == fallbackLevel(score)
    IN  [riskScore |-> JsNum(score),
         riskLevel |-> JsStr(riskLevel),
         reasoning |-> JsStr(fallbackReasoning(input)),
         guardianMessage |-> JsStr(fallbackGuardianMessage(riskLevel)),
         saferAction |-> JsStr(fallbackSaferAction(riskLevel))]

---------------------------------------------------------------------------
(* The rate limiter, lines 158-207.                                        *)

RATE_LIMIT_WINDOW_MS == 60000
RATE_LIMIT_MAX == 30

\* String.prototype.trim for the header entries the model uses.
Trim(x) == IF x = " a" THEN "a" ELSE x

\* Lines 163-167. req.fwd is the x-forwarded-for header split at its commas
\* (<<>>: no header, or an empty one), req.ip the peer address ("": none).
getClientIp(req) == IF req.fwd # <<>> THEN Trim(req.fwd[1]) ELSE req.ip

\* Line 171: getClientIp(req) || 'unknown'
ClientKey(req) == IF getClientIp(req) # "" THEN getClientIp(req) ELSE "unknown"

\* rateLimitStore.set(ip, entry)
MapSet(store, ip, entry) ==
    [k \in DOMAIN store \cup {ip} |-> IF k = ip THEN entry ELSE store[k]]

\* A plausible slip: the window test and the quota test off by one request.
Admitted_off_by_one(count) == ~(count > RATE_LIMIT_MAX + 1)

\* Line 189, negated: the request passes when the count is within the quota.
Admitted(count) == ~(count > RATE_LIMIT_MAX)

\* A plausible slip: a window that never expires.
WindowExpired_never(entry, t) == FALSE

\* A plausible slip: the window is over after half its length.
WindowExpired_half(entry, t) == t - entry.start > RATE_LIMIT_WINDOW_MS \div 2

\* Line 180.
WindowExpired(entry, t) == t - entry.start > RATE_LIMIT_WINDOW_MS

\* A plausible slip: the quota is tested before the count is raised, so that
\* a denied request is not counted.
rateLimitMiddleware_denied_uncounted(store, ip, t) ==
    IF ip \notin DOMAIN store
    THEN [store |-> MapSet(store, ip, [count |-> 1, start |-> t]), next |-> TRUE]
    ELSE IF WindowExpired(store[ip], t)
    THEN [store |-> MapSet(store, ip, [count |-> 1, start |-> t]), next |-> TRUE]
    ELSE IF store[ip].count >= RATE_LIMIT_MAX
    THEN [store |-> store, next |-> FALSE]
    ELSE [store |-> MapSet(store, ip, [store[ip] EXCEPT !.count = @ + 1]), next |-> TRUE]

\* Lines 169-197: the store after the call, and whether next() was called.
rateLimitMiddleware(store, ip, t) ==
    IF ip \notin DOMAIN store
    THEN [store |-> MapSet(store, ip, [count |-> 1, start |-> t]), next |-> TRUE]
    ELSE IF WindowExpired(store[ip], t)
    THEN [store |-> MapSet(store, ip, [count |-> 1, start |-> t]), next |-> TRUE]
    ELSE LET entry == [store[ip] EXCEPT !.count = @ + 1]
         IN  [store |-> MapSet(store, ip, entry), next |-> Admitted(entry.count)]

\* A plausible slip: the reaper drops an entry as soon as its window is over.
Reapable_one_window(entry, t) == t - entry.start > RATE_LIMIT_WINDOW_MS

\* Line 203.
Reapable(entry, t) == t - entry.start > RATE_LIMIT_WINDOW_MS * 2

\* Lines 200-207: the interval callback.
reap(store, t) ==
    [k \in {ip \in DOMAIN store : ~Reapable(store[ip], t)} |-> store[k]]

---------------------------------------------------------------------------
(* The memory record and its file, lines 62-92.                            *)

DefaultMemory == [hasMemory |-> FALSE, lastLowScenarioId |-> JsNull, lastSaferAction |-> JsNull]

\* JSON.stringify of an object: a property holding undefined is left out, a
\* number that is not finite is written null.
Stringify(o) ==
    [f \in {g \in DOMAIN o : o[g].t # "undefined"} |->
        IF o[f].t = "number" /\ ~IsFinite(o[f]) THEN JsNull ELSE o[f]]

\* The file's content: missing, text JSON.parse rejects, JSON of a value that
\* is no object, or JSON of an object.
NoFile == [state |-> "missing", obj |-> EmptyObj]
MalformedFile == [state |-> "malformed", obj |-> EmptyObj]
ScalarFile == [state |-> "scalar", obj |-> EmptyObj]
ObjectFile(o) == [state |-> "object", obj |-> o]

\* A plausible slip: only the flag is read back from the file.
loadMemory_flag_only(file) ==
    IF file.state = "object"
    THEN [hasMemory |-> Truthy(Get(file.obj, "hasMemory")),
          lastLowScenarioId |-> JsNull,
          lastSaferAction |-> JsNull]
    ELSE DefaultMemory

\* Lines 65-81, from the default record of line 63.
loadMemory(file) ==
    IF file.state = "object"
    THEN [hasMemory |-> Truthy(Get(file.obj, "hasMemory")),
          lastLowScenarioId |-> OrNull(Get(file.obj, "lastLowScenarioId")),
          lastSaferAction |-> OrNull(Get(file.obj, "lastSaferAction"))]
    ELSE DefaultMemory

\* JSON.stringify(MEMORY, null, 2)
MemoryJson(m) ==
    Stringify([hasMemory |-> JsBool(m.hasMemory),
               lastLowScenarioId |-> m.lastLowScenarioId,
               lastSaferAction |-> m.lastSaferAction])

\* Lines 83-89: the file after the call; writeOk is whether writeFileSync
\* returned (TRUE) or threw (FALSE).
saveMemory(file, m, writeOk) == IF writeOk THEN ObjectFile(MemoryJson(m)) ELSE file

---------------------------------------------------------------------------
(* Credentials, lines 227-231 and 317-321.                                 *)

LowerChar(c) ==
    CASE c = "A" -> "a" [] c = "B" -> "b" [] c = "C" -> "c" [] c = "D" -> "d"
      [] c = "E" -> "e" [] c = "F" -> "f" [] c = "G" -> "g" [] c = "H" -> "h"
      [] c = "I" -> "i" [] c = "J" -> "j" [] c = "K" -> "k" [] c = "L" -> "l"
      [] c = "M" -> "m" [] c = "N" -> "n" [] c = "O" -> "o" [] c = "P" -> "p"
      [] c = "Q" -> "q" [] c = "R" -> "r" [] c = "S" -> "s" [] c = "T" -> "t"
      [] c = "U" -> "u" [] c = "V" -> "v" [] c = "W" -> "w" [] c = "X" -> "x"
      [] c = "Y" -> "y" [] c = "Z" -> "z" [] OTHER -> c

RECURSIVE toLowerCase(_)
toLowerCase(x) ==
    IF Len(x) = 0 THEN ""
    ELSE LowerChar(SubSeq(x, 1, 1)) \o toLowerCase(SubSeq(x, 2, Len(x)))

\* Whether text x contains text pat.
Contains(x, pat) ==
    \E i \in 1..(Len(x) - Len(pat) + 1) : SubSeq(x, i, i + Len(pat) - 1) = pat

PlaceholderWords == {"your", "placeholder", "change", "replace", "xxxx", "example"}

\* A plausible slip: the test forgets to lower-case the key.
isPlaceholderKey_case_sensitive(k) ==
    IF ~Truthy(k) THEN TRUE
    ELSE \E w \in PlaceholderWords : Contains(k.s, w)

\* Lines 227-231 (and 317-321, the same text): k is undefined or a string.
isPlaceholderKey(k) ==
    IF ~Truthy(k) THEN TRUE
    ELSE \E w \in PlaceholderWords : Contains(toLowerCase(k.s), w)

---------------------------------------------------------------------------
(* The provider's answer and its parsing, lines 266-292.                   *)
(* A text is a sequence of tokens: "{" and "}", "ws" (white space), "junk" *)
(* (prose without braces), a literal ("null", "5", "[50]") or the name of  *)
(* a member list, the text between the braces of a flat JSON object.       *)

Advice == "Take the lit main road."

\* The member lists the provider answers with.
Members(tok) ==
    LET full(score, level) ==
            [riskScore |-> score, riskLevel |-> JsStr(level), reasoning |-> JsStr("r"),
             guardianMessage |-> JsStr("g"), saferAction |-> JsStr(Advice)]
    IN  CASE tok = "low20" -> full(JsNum(20), "LOW")
          [] tok = "medium55" -> full(JsNum(55), "MEDIUM")
          [] tok = "low95" -> full(JsNum(95), "LOW")
          [] tok = "high150" -> full(JsNum(150), "HIGH")
          [] tok = "lowMinus5" -> full(JsNum(-5), "LOW")
          [] tok = "medium55half" -> full(JsHalf(55), "MEDIUM")
          [] tok = "extreme10" -> full(JsNum(10), "EXTREME")
          [] tok = "scoreOnly" -> [riskScore |-> JsNum(10)]
          [] tok = "scoreNull" -> full(JsNull, "LOW")
          [] tok = "scoreString50" -> full(JsStr("50"), "MEDIUM")
          [] tok = "scoreStringAbc" -> full(JsStr("abc"), "MEDIUM")
          [] tok = "scoreTrue" -> full(JsBool(TRUE), "LOW")
          [] tok = "scoreEmptyArray" -> full(JsArr(""), "LOW")
          [] tok = "scoreArray12" -> full(JsArr("1,2"), "LOW")
          [] tok = "scoreOverflow" -> full(JsInfinity, "HIGH")
          [] tok = "noScore" ->
                [riskLevel |-> JsStr("LOW"), reasoning |-> JsStr("r"),
                 guardianMessage |-> JsStr("g"), saferAction |-> JsStr(Advice)]
          [] tok = "withModel" -> With(full(JsNum(20), "MEDIUM"), "model", JsStr("gpt"))
          [] tok = "lowNoAction" ->
                [riskScore |-> JsNum(5), riskLevel |-> JsStr("LOW"), reasoning |-> JsStr("r"),
                 guardianMessage |-> JsStr("g")]
          [] tok = "lowEmptyAction" ->
                With(full(JsNum(5), "LOW"), "saferAction", JsStr(""))
          [] OTHER -> EmptyObj

MemberTokens ==
    {"low20", "medium55", "low95", "high150", "lowMinus5", "medium55half", "extreme10",
     "scoreOnly", "scoreNull", "scoreString50", "scoreStringAbc", "scoreTrue",
     "scoreEmptyArray", "scoreArray12", "scoreOverflow", "noScore", "withModel",
     "lowNoAction", "lowEmptyAction"}

LiteralTokens == {"null", "5", "[50]"}

\* What JSON.parse gives: threw, or a value: an object, or a literal of which
\* only the truthiness matters.
ParseThrew == [threw |-> TRUE, isObject |-> FALSE, truthy |-> FALSE, obj |-> EmptyObj]
ParsedObject(o) == [threw |-> FALSE, isObject |-> TRUE, truthy |-> TRUE, obj |-> o]
ParsedLiteral(tok) ==
    [threw |-> FALSE, isObject |-> FALSE, truthy |-> tok # "null", obj |-> EmptyObj]

\* String.prototype.trim
RECURSIVE TrimText(_)
TrimText(text) ==
    IF text = <<>> THEN text
    ELSE IF text[1] = "ws" THEN TrimText(Tail(text))
    ELSE IF text[Len(text)] = "ws" THEN TrimText(SubSeq(text, 1, Len(text) - 1))
    ELSE text

\* JSON.parse: white space around the value is skipped.
JSONparse(text) ==
    LET t == TrimText(text)
    IN  IF Len(t) = 3 /\ t[1] = "{" /\ t[3] = "}" /\ t[2] \in MemberTokens
        THEN ParsedObject(Members(t[2]))
        ELSE IF t = <<"{", "}">> THEN ParsedObject(EmptyObj)
        ELSE IF Len(t) = 1 /\ t[1] \in LiteralTokens THEN ParsedLiteral(t[1])
        ELSE ParseThrew

\* text.indexOf('{') and text.lastIndexOf('}'), from 1; 0 when there is none.
indexOfOpen(text) ==
    IF \E i \in 1..Len(text) : text[i] = "{"
    THEN CHOOSE i \in 1..Len(text) : text[i] = "{" /\ \A j \in 1..(i - 1) : text[j] # "{"
    ELSE 0

lastIndexOfClose(text) ==
    IF \E i \in 1..Len(text) : text[i] = "}"
    THEN CHOOSE i \in 1..Len(text) : text[i] = "}" /\ \A j \in (i + 1)..Len(text) : text[j] # "}"
    ELSE 0

\* Lines 268-269: the first truthy of the three fields, as text, trimmed. A
\* field that is absent or empty is <<>>.
responseText(response) ==
    TrimText(IF response.outputText # <<>> THEN response.outputText
             ELSE IF response.text # <<>> THEN response.text
             ELSE response.content)

\* Lines 278-292: parsed, null when both attempts fail.
parseProviderText(text) ==
    IF ~JSONparse(text).threw THEN JSONparse(text)
    ELSE LET first == indexOfOpen(text)
             last == lastIndexOfClose(text)
         IN  IF first # 0 /\ last # 0 /\ last > first
             THEN JSONparse(SubSeq(text, first, last))
             ELSE ParseThrew

\* A plausible slip: any parsed object is taken, whatever its riskScore.
providerUsable_any_object(parsed) == ~parsed.threw /\ parsed.truthy

\* Line 294, negated: parsed is truthy and Number(parsed.riskScore) is finite.
providerUsable(parsed) ==
    /\ ~parsed.threw
    /\ parsed.truthy
    /\ IsFinite(ToNumber(Get(parsed.obj, "riskScore")))

\* A plausible slip: the score is passed on as it came.
clampScore_none(x) == x

\* Line 300: Math.max(0, Math.min(100, x)) of a finite number.
clampScore(x) ==
    IF x.n < 0 THEN JsNum(0)
    ELSE IF x.n > 100 \/ (x.n = 100 /\ x.s = ".5") THEN JsNum(100)
    ELSE x

---------------------------------------------------------------------------
(* Responses and suspended handlers.                                       *)

NoProvider == [kind |-> "none", parsed |-> ParseThrew]
ProviderThrew == [kind |-> "throw", parsed |-> ParseThrew]
ProviderAnswered(parsed) == [kind |-> "text", parsed |-> parsed]

\* A response: the route and client key it answers, the HTTP status, the
\* content type ("json", "audio"), the JSON body, the request body the handler
\* read (none when the limiter answered) and what the provider had delivered.
Response(route, ip, status, type, json, req, provider) ==
    [route |-> route, ip |-> ip, status |-> status, type |-> type, json |-> json,
     req |-> req, provider |-> provider]

NoResp == Response("", "", 0, "", EmptyObj, EmptyObj, NoProvider)

Json(route, ip, status, json, req) == Response(route, ip, status, "json", json, req, NoProvider)

ErrorJson(code) == [error |-> JsStr(code)]

\* A handler suspended at its await: its route, client key and request body.
Suspended(route, ip, body) == [route |-> route, ip |-> ip, body |-> body]

RemoveAt(q, i) == SubSeq(q, 1, i - 1) \o SubSeq(q, i + 1, Len(q))

---------------------------------------------------------------------------
(* POST /api/risk-assess, lines 210-308.                                   *)

required == <<"scenarioId", "timeOfDay", "userAlone", "neighborhoodType", "routeLighting">>

\* A plausible slip: the loop runs on and the last missing field is named.
firstMissing_last(body) ==
    IF \E i \in 1..Len(required) : required[i] \notin DOMAIN body
    THEN CHOOSE i \in 1..Len(required) :
            /\ required[i] \notin DOMAIN body
            /\ \A j \in (i + 1)..Len(required) : required[j] \in DOMAIN body
    ELSE 0

\* Lines 220-224: the first required field that is not in the body, 0 if none.
firstMissing(body) ==
    IF \E i \in 1..Len(required) : required[i] \notin DOMAIN body
    THEN CHOOSE i \in 1..Len(required) :
            /\ required[i] \notin DOMAIN body
            /\ \A j \in 1..(i - 1) : required[j] \in DOMAIN body
    ELSE 0

\* A plausible slip: the memory keeps the values as they came, falsy or not.
rememberLow_verbatim(body, obj) ==
    [hasMemory |-> TRUE,
     lastLowScenarioId |-> Get(body, "scenarioId"),
     lastSaferAction |-> Get(obj, "saferAction")]

\* Lines 238-240.
rememberLow(body, obj) ==
    [hasMemory |-> TRUE,
     lastLowScenarioId |-> OrNull(Get(body, "scenarioId")),
     lastSaferAction |-> OrNull(Get(obj, "saferAction"))]

\* A plausible slip: every result is remembered, not only a LOW one.
isLow_always(obj) == TRUE

\* Line 236.
isLow(obj) == Get(obj, "riskLevel") = JsStr("LOW")

\* A plausible slip: the memory is updated only once the file is written.
sendResult_save_first(obj, model, body, mem, file, writeOk) ==
    LET m == IF isLow(obj) /\ writeOk THEN rememberLow(body, obj) ELSE mem
    IN  [MEMORY |-> m,
         memoryFile |-> IF isLow(obj) THEN saveMemory(file, m, writeOk) ELSE file,
         json |-> Stringify(With(obj, "model", JsStr(model)))]

\* Lines 234-247: the memory, the file and the JSON sent.
sendResult(obj, model, body, mem, file, writeOk) ==
    LET m == IF isLow(obj) THEN rememberLow(body, obj) ELSE mem
    IN  [MEMORY |-> m,
         memoryFile |-> IF isLow(obj) THEN saveMemory(file, m, writeOk) ELSE file,
         json |-> Stringify(With(obj, "model", JsStr(model)))]

\* A plausible slip: a provider failure is passed on to the caller.
afterProvider_propagates(outcome, body, mem, file, writeOk) ==
    IF outcome.kind = "throw"
    THEN [MEMORY |-> mem, memoryFile |-> file, json |-> ErrorJson("server_error"),
          status |-> 500, provider |-> ProviderThrew]
    ELSE LET parsed == parseProviderText(responseText(outcome.response))
         IN  IF ~providerUsable(parsed)
             THEN sendResult(fallbackRisk(body), "fallback", body, mem, file, writeOk)
                  @@ [status |-> 200, provider |-> ProviderAnswered(parsed)]
             ELSE sendResult(With(parsed.obj, "riskScore",
                                  clampScore(ToNumber(Get(parsed.obj, "riskScore")))),
                             "gemini", body, mem, file, writeOk)
                  @@ [status |-> 200, provider |-> ProviderAnswered(parsed)]

\* Lines 270-307: the handler from the point where client.generate settles.
\* outcome.kind is "throw" (the SDK is missing, or the call rejected) or
\* "resolve" with outcome.response.
afterProvider(outcome, body, mem, file, writeOk) ==
    IF outcome.kind = "throw"
    THEN sendResult(fallbackRisk(body), "fallback", body, mem, file, writeOk)
         @@ [status |-> 200, provider |-> ProviderThrew]
    ELSE LET parsed == parseProviderText(responseText(outcome.response))
         IN  IF ~providerUsable(parsed)
             THEN sendResult(fallbackRisk(body), "fallback", body, mem, file, writeOk)
                  @@ [status |-> 200, provider |-> ProviderAnswered(parsed)]
             ELSE sendResult(With(parsed.obj, "riskScore",
                                  clampScore(ToNumber(Get(parsed.obj, "riskScore")))),
                             "gemini", body, mem, file, writeOk)
                  @@ [status |-> 200, provider |-> ProviderAnswered(parsed)]

\* The history of the claims' window: a request opens a window when its client
\* has none or the last one was opened more than 60 s ago. n counts the
\* requests that reached the limiter since, the opening one included, passed
\* those of them the limiter let through; over says whether the window before
\* this one ended with requests denied.
Counted(ip, next) ==
    IF ip \in DOMAIN window /\ now - window[ip].open <= 60 * 1000
    THEN MapSet(window, ip, [window[ip] EXCEPT !.n = @ + 1,
                                               !.passed = IF next THEN @ + 1 ELSE @])
    ELSE MapSet(window, ip,
                [n |-> 1, open |-> now, passed |-> IF next THEN 1 ELSE 0,
                 over |-> ip \in DOMAIN window /\ window[ip].passed < window[ip].n])

\* The history of LOW results: the scenarioId submitted and the saferAction
\* sent, as they were.
NoLow == [any |-> FALSE, scenarioId |-> JsUndef, saferAction |-> JsUndef]

NoteLow(json, body) ==
    IF Get(json, "riskLevel") = JsStr("LOW")
    THEN [any |-> TRUE, scenarioId |-> Get(body, "scenarioId"),
          saferAction |-> Get(json, "saferAction")]
    ELSE lastLow

\* The request up to its first await (or its end), lines 169-197 and 210-266.
RiskAssess(req, body, writeOk) ==
    LET ip == ClientKey(req)
        gate == rateLimitMiddleware(rateLimitStore, ip, now)
    IN  /\ rateLimitStore' = gate.store
        /\ window' = Counted(ip, gate.next)
        /\ IF ~gate.next
           THEN /\ resp' = Json("risk", ip, 429, ErrorJson("rate_limited"), EmptyObj)
                /\ UNCHANGED <<MEMORY, memoryFile, pending, lastLow>>
           ELSE IF firstMissing(body) # 0
           THEN /\ resp' = Json("risk", ip, 400,
                                ErrorJson("missing_" \o required[firstMissing(body)]), body)
                /\ UNCHANGED <<MEMORY, memoryFile, pending, lastLow>>
           ELSE IF isPlaceholderKey(env.GEMINI_API_KEY)
           THEN LET out == sendResult(fallbackRisk(body), "fallback", body,
                                      MEMORY, memoryFile, writeOk)
                IN  /\ MEMORY' = out.MEMORY
                    /\ memoryFile' = out.memoryFile
                    /\ resp' = Json("risk", ip, 200, out.json, body)
                    /\ lastLow' = NoteLow(out.json, body)
                    /\ UNCHANGED pending
           ELSE /\ pending' = Append(pending, Suspended("risk", ip, body))
                /\ resp' = NoResp
                /\ UNCHANGED <<MEMORY, memoryFile, lastLow>>
        /\ UNCHANGED <<now, env>>

\* A plausible slip: the resumed handler reads the body of the handler that
\* waits longest, not its own.
ProviderSettles_oldest_body(i, outcome, writeOk) ==
    /\ i \in 1..Len(pending)
    /\ pending[i].route = "risk"
    /\ LET out == afterProvider(outcome, pending[1].body, MEMORY, memoryFile, writeOk)
       IN  /\ MEMORY' = out.MEMORY
           /\ memoryFile' = out.memoryFile
           /\ resp' = Response("risk", pending[i].ip, out.status, "json", out.json,
                               pending[i].body, out.provider)
           /\ lastLow' = NoteLow(out.json, pending[i].body)
    /\ pending' = RemoveAt(pending, i)
    /\ UNCHANGED <<now, rateLimitStore, env, window>>

\* client.generate settles for the i-th suspended handler, which runs to its end.
ProviderSettles(i, outcome, writeOk) ==
    /\ i \in 1..Len(pending)
    /\ pending[i].route = "risk"
    /\ LET out == afterProvider(outcome, pending[i].body, MEMORY, memoryFile, writeOk)
       IN  /\ MEMORY' = out.MEMORY
           /\ memoryFile' = out.memoryFile
           /\ resp' = Response("risk", pending[i].ip, out.status, "json", out.json,
                               pending[i].body, out.provider)
           /\ lastLow' = NoteLow(out.json, pending[i].body)
    /\ pending' = RemoveAt(pending, i)
    /\ UNCHANGED <<now, rateLimitStore, env, window>>

---------------------------------------------------------------------------
(* POST /api/tts, lines 310-387.                                           *)

\* A plausible slip: the length comes out one too long, as if the limit were
\* tested with >= 400.
textLength_one_more(x) ==
    CASE x = "text of 400 characters" -> 401
      [] x = "text of 401 characters" -> 402
      [] OTHER -> Len(x) + 1

\* text.length: the two long texts are named by their length.
textLength(x) ==
    CASE x = "text of 400 characters" -> 400
      [] x = "text of 401 characters" -> 401
      [] OTHER -> Len(x)

ttsFallback(text) ==
    [ok |-> JsBool(FALSE), fallback |-> JsBool(TRUE), provider |-> JsStr("browser_tts"),
     text |-> text, reason |-> JsStr("elevenlabs_unavailable")]

\* The request up to its await of fetch, lines 169-197 and 310-329.
Tts(req, body) ==
    LET ip == ClientKey(req)
        gate == rateLimitMiddleware(rateLimitStore, ip, now)
        text == Get(body, "text")
    IN  /\ rateLimitStore' = gate.store
        /\ window' = Counted(ip, gate.next)
        /\ IF ~gate.next
           THEN /\ resp' = Json("tts", ip, 429, ErrorJson("rate_limited"), EmptyObj)
                /\ UNCHANGED pending
           ELSE IF text.t # "string"
           THEN /\ resp' = Json("tts", ip, 400, ErrorJson("missing_text"), body)
                /\ UNCHANGED pending
           ELSE IF textLength(text.s) > 400
           THEN /\ resp' = Json("tts", ip, 400, ErrorJson("text_too_long"), body)
                /\ UNCHANGED pending
           ELSE IF isPlaceholderKey(env.ELEVENLABS_API_KEY)
                   \/ isPlaceholderKey(env.ELEVENLABS_VOICE_ID)
           THEN /\ resp' = Json("tts", ip, 500, ErrorJson("elevenlabs_not_configured"), body)
                /\ UNCHANGED pending
           ELSE /\ pending' = Append(pending, Suspended("tts", ip, body))
                /\ resp' = NoResp
        /\ UNCHANGED <<now, MEMORY, memoryFile, env, lastLow>>

\* Lines 329-386: fetch settles for the i-th suspended handler. outcome is
\* "ok" (a success status and a body that can be read), "notOk" (any other
\* status) or "throw" (fetch or arrayBuffer rejected).
TtsSettles(i, outcome) ==
    /\ i \in 1..Len(pending)
    /\ pending[i].route = "tts"
    /\ resp' = IF outcome = "ok"
               THEN Response("tts", pending[i].ip, 200, "audio", EmptyObj, pending[i].body,
                             NoProvider)
               ELSE Json("tts", pending[i].ip, 200,
                         ttsFallback(Get(pending[i].body, "text")), pending[i].body)
    /\ pending' = RemoveAt(pending, i)
    /\ UNCHANGED <<now, rateLimitStore, MEMORY, memoryFile, env, window, lastLow>>

---------------------------------------------------------------------------
(* The GET endpoints, lines 94-156 and 438-454, the clock and the reaper.  *)

\* Lines 102-104.
GetMemoryEcho ==
    /\ resp' = Json("memory-echo", "", 200, MemoryJson(MEMORY), EmptyObj)
    /\ UNCHANGED <<now, rateLimitStore, MEMORY, memoryFile, env, pending, window, lastLow>>

\* Lines 94-96: of the GET endpoints with a fixed answer, /health stands for
\* all (the others differ only in the constant they send).
GetHealth ==
    /\ resp' = Json("health", "", 200, [ok |-> JsBool(TRUE), ts |-> JsNum(now)], EmptyObj)
    /\ UNCHANGED <<now, rateLimitStore, MEMORY, memoryFile, env, pending, window, lastLow>>

\* Time passes: ms milliseconds.
Tick(ms) ==
    /\ now' = now + ms
    /\ resp' = NoResp
    /\ UNCHANGED <<rateLimitStore, MEMORY, memoryFile, env, pending, window, lastLow>>

\* Lines 200-207: the interval callback, first due one window after the start.
Reaper ==
    /\ now >= RATE_LIMIT_WINDOW_MS
    /\ rateLimitStore' = reap(rateLimitStore, now)
    /\ resp' = NoResp
    /\ UNCHANGED <<now, MEMORY, memoryFile, env, pending, window, lastLow>>

---------------------------------------------------------------------------
(* The inputs and the bounds.                                              *)

\* Lines 16-57.
Scenario(id, name, timeOfDay, userAlone, neighborhoodType, routeLighting) ==
    [scenarioId |-> JsStr(id), displayName |-> JsStr(name), timeOfDay |-> JsStr(timeOfDay),
     userAlone |-> JsBool(userAlone), neighborhoodType |-> JsStr(neighborhoodType),
     routeLighting |-> JsStr(routeLighting)]

SCENARIOS ==
    <<Scenario("s1", "Morning commute", "day", FALSE, "downtown", "good"),
      Scenario("s2", "Late night walk", "night", TRUE, "residential", "poor"),
      Scenario("s3", "Evening shift exit", "night", FALSE, "industrial", "mixed"),
      Scenario("s4", "Afternoon stroll", "day", TRUE, "residential", "good"),
      Scenario("s5", "Late evening errand", "night", TRUE, "downtown", "mixed")>>

\* o without its property f
Without(o, f) == [g \in DOMAIN o \ {f} |-> o[g]]

TickMs == 30000     \* the clock's step in the specifications that look inside a window
MaxTicks == 3       \* the clock stops after MaxTicks windows
MaxCount == 32      \* client "a" stops sending when its entry's count is MaxCount
MaxLight == 2       \* the same for the other clients
MaxInFlight == 2    \* handlers suspended at an await at a time

EmptyMap == [k \in {} |-> 0]

\* Requests by the header and the peer address they come with: two reach the
\* limiter as client "a", one as "unknown".
Senders ==
    {[fwd |-> <<" a", "b">>, ip |-> "p"], [fwd |-> <<>>, ip |-> "a"], [fwd |-> <<>>, ip |-> ""]}

PlaceholderEnv ==
    [GEMINI_API_KEY |-> JsStr("YOUR-api-key-here"), ELEVENLABS_API_KEY |-> JsUndef,
     ELEVENLABS_VOICE_ID |-> JsStr("")]

RealEnv ==
    [GEMINI_API_KEY |-> JsStr("AIzaSyD-4fT"), ELEVENLABS_API_KEY |-> JsStr("sk_9f2"),
     ELEVENLABS_VOICE_ID |-> JsStr("Rachel21")]

\* The state after the module is loaded (lines 1-92 and 161): the memory is
\* what loadMemory makes of the file found.
InitWith(envs, files) ==
    /\ now = 0
    /\ rateLimitStore = EmptyMap
    /\ memoryFile \in files
    /\ MEMORY = loadMemory(memoryFile)
    /\ env \in envs
    /\ pending = <<>>
    /\ resp = NoResp
    /\ window = EmptyMap
    /\ admitLog = EmptyMap
    /\ unreaped = EmptyMap
    /\ lastLow = NoLow

\* The client of req may send: client "a" until its entry's count is MaxCount,
\* any other client until its count is MaxLight.
MaySend(req) ==
    LET ip == ClientKey(req)
    IN  IF ip \notin DOMAIN rateLimitStore THEN TRUE
        ELSE IF WindowExpired(rateLimitStore[ip], now) THEN TRUE
        ELSE rateLimitStore[ip].count < (IF ip = "a" THEN MaxCount ELSE MaxLight)

ClockRuns(ms) == now + ms <= MaxTicks * RATE_LIMIT_WINDOW_MS

\* Lines 1-92 and 161: the process ends and is started again. What it held in
\* memory is gone, handlers in flight with it; the file is read anew.
Restart ==
    /\ MEMORY' = loadMemory(memoryFile)
    /\ rateLimitStore' = EmptyMap
    /\ pending' = <<>>
    /\ resp' = NoResp
    /\ window' = EmptyMap
    /\ UNCHANGED <<now, memoryFile, env, lastLow>>

---------------------------------------------------------------------------
(* The history of admissions: per client key, how many requests the limiter *)
(* let pass at each instant of the last 60 s (the instants t with           *)
(* now - t < 60 s).                                                         *)

LogAt(ip) == IF ip \in DOMAIN admitLog THEN admitLog[ip] ELSE EmptyMap

\* The log after the limiter decided the request of req.
Logged(req) ==
    LET ip == ClientKey(req)
    IN  IF rateLimitMiddleware(rateLimitStore, ip, now).next
        THEN MapSet(admitLog, ip,
                    MapSet(LogAt(ip), now, IF now \in DOMAIN LogAt(ip) THEN LogAt(ip)[now] + 1 ELSE 1))
        ELSE admitLog

\* The log at time t: what is older than 60 s is forgotten.
Pruned(t) ==
    [ip \in DOMAIN admitLog |->
        [u \in {v \in DOMAIN admitLog[ip] : t - v < 60 * 1000} |-> admitLog[ip][u]]]

RECURSIVE SumOver(_, _)
SumOver(f, S) ==
    IF S = {} THEN 0
    ELSE LET x == CHOOSE y \in S : TRUE IN f[x] + SumOver(f, S \ {x})

\* The requests of ip admitted in the last 60 s.
AdmittedLately(ip) == SumOver(LogAt(ip), DOMAIN LogAt(ip))

---------------------------------------------------------------------------
(* SpecGov: the rate limiter under two clients, both POST endpoints, the   *)
(* clock and the reaper; no provider is configured.                        *)

GovBodies == {SCENARIOS[1], Without(SCENARIOS[1], "timeOfDay")}

GovTexts == {EmptyObj}

InitGov == InitWith({PlaceholderEnv}, {NoFile})

NextGov ==
    \/ \E req \in Senders, body \in GovBodies :
          MaySend(req) /\ RiskAssess(req, body, TRUE) /\ UNCHANGED <<admitLog, unreaped>>
    \/ \E req \in Senders, body \in GovTexts :
          MaySend(req) /\ Tts(req, body) /\ UNCHANGED <<admitLog, unreaped>>
    \/ ClockRuns(TickMs) /\ Tick(TickMs) /\ UNCHANGED <<admitLog, unreaped>>
    \/ Reaper /\ UNCHANGED <<admitLog, unreaped>>

SpecGov == InitGov /\ [][NextGov]_vars

---------------------------------------------------------------------------
(* SpecSliding: one client and the limiter, with the history of admissions *)
(* recorded.                                                               *)

SlidingSender == [fwd |-> <<>>, ip |-> "a"]

NextSliding ==
    \/ /\ MaySend(SlidingSender)
       /\ RiskAssess(SlidingSender, Without(SCENARIOS[1], "timeOfDay"), TRUE)
       /\ admitLog' = Logged(SlidingSender)
       /\ UNCHANGED unreaped
    \/ ClockRuns(TickMs) /\ Tick(TickMs) /\ admitLog' = Pruned(now') /\ UNCHANGED unreaped
    \/ Reaper /\ UNCHANGED <<admitLog, unreaped>>

SpecSliding == InitGov /\ [][NextSliding]_vars

---------------------------------------------------------------------------
(* Spec: the risk-assess pipeline. One client sends scenarios; the provider *)
(* is configured or not; its call throws or resolves with any of the texts  *)
(* below; the memory file can be written or not.                            *)

AssessSender == [fwd |-> <<"b", "a">>, ip |-> "p"]

\* The first preset with another scenarioId.
WithId(id) == With(SCENARIOS[1], "scenarioId", id)

\* Bodies with the five fields: presets of LOW, HIGH and MEDIUM fallback
\* risk, and the first preset with an empty scenarioId.
ValidBodies == {SCENARIOS[1], SCENARIOS[2], SCENARIOS[3], WithId(JsStr(""))}

Bodies == ValidBodies \cup {Without(SCENARIOS[2], "routeLighting")}

Resolved(outputText, text, content) ==
    [kind |-> "resolve",
     response |-> [outputText |-> outputText, text |-> text, content |-> content]]

Thrown == [kind |-> "throw", response |-> [outputText |-> <<>>, text |-> <<>>, content |-> <<>>]]

\* What the provider answers: strict JSON of every member list, JSON inside
\* prose or white space, and texts that hold no JSON object.
ProviderTexts ==
    {<<"{", tok, "}">> : tok \in MemberTokens}
    \cup {<<"junk", "{", "low20", "}", "junk">>, <<"ws", "{", "medium55", "}", "ws">>,
          <<"junk", "{", "scoreStringAbc", "}">>, <<"{", "}">>,
          <<"junk">>, <<"{", "low20">>, <<"}", "junk", "{">>,
          <<"{", "low20", "}", "{", "low20", "}">>, <<"null">>, <<"5">>, <<"[50]">>, <<>>}

Outcomes ==
    {Thrown} \cup {Resolved(t, <<>>, <<>>) : t \in ProviderTexts}
    \cup {Resolved(<<>>, <<"{", "low20", "}">>, <<"junk">>),
          Resolved(<<>>, <<>>, <<"{", "medium55", "}">>)}

Init == InitWith({PlaceholderEnv, RealEnv}, {NoFile})

Next ==
    \/ \E body \in Bodies, writeOk \in BOOLEAN :
          /\ MaySend(AssessSender)
          /\ Len(pending) < MaxInFlight
          /\ RiskAssess(AssessSender, body, writeOk)
          /\ UNCHANGED <<admitLog, unreaped>>
    \/ \E i \in 1..Len(pending), outcome \in Outcomes, writeOk \in BOOLEAN :
          ProviderSettles(i, outcome, writeOk) /\ UNCHANGED <<admitLog, unreaped>>
    \/ GetMemoryEcho /\ UNCHANGED <<admitLog, unreaped>>

Spec == Init /\ [][Next]_vars

---------------------------------------------------------------------------
(* SpecFallback: fallbackRisk alone. Each behaviour starts with one input   *)
(* waiting twice and calls the function on it twice.                        *)

FallbackFields == {"timeOfDay", "userAlone", "neighborhoodType", "routeLighting"}

Absent == [t |-> "absent", s |-> "", n |-> 0]

\* The object that has the fields of choice that are not Absent.
InputOf(choice) == [f \in {g \in FallbackFields : choice[g] # Absent} |-> choice[f]]

FallbackInputs ==
    {InputOf([timeOfDay |-> t, userAlone |-> u, neighborhoodType |-> n, routeLighting |-> l]) :
        t \in {JsStr("day"), JsStr("night"), Absent},
        u \in {JsBool(TRUE), JsBool(FALSE), Absent},
        n \in {JsStr("industrial"), JsStr("downtown"), JsStr("residential"), Absent},
        l \in {JsStr("poor"), JsStr("mixed"), JsStr("good"), Absent}}

InitFallback ==
    /\ now = 0
    /\ rateLimitStore = EmptyMap
    /\ memoryFile = NoFile
    /\ MEMORY = loadMemory(memoryFile)
    /\ env = PlaceholderEnv
    /\ \E input \in FallbackInputs :
          pending = <<Suspended("fallbackRisk", "", input), Suspended("fallbackRisk", "", input)>>
    /\ resp = NoResp
    /\ window = EmptyMap
    /\ admitLog = EmptyMap
    /\ unreaped = EmptyMap
    /\ lastLow = NoLow

\* fallbackRisk is called on the input that waits first.
CallFallbackRisk ==
    /\ pending # <<>>
    /\ pending[1].route = "fallbackRisk"
    /\ resp' = Json("fallbackRisk", "", 0, fallbackRisk(pending[1].body), pending[1].body)
    /\ pending' = Tail(pending)
    /\ UNCHANGED <<now, rateLimitStore, MEMORY, memoryFile, env, window, admitLog, lastLow,
                   unreaped>>

NextFallback == CallFallbackRisk

SpecFallback == InitFallback /\ [][NextFallback]_vars

---------------------------------------------------------------------------
(* SpecFrame: every operation of the server next to the memory. One client  *)
(* floods the limiter with requests that fail validation until it is        *)
(* denied; another uses both POST endpoints, one handler in flight at a     *)
(* time; anyone reads the GET endpoints. The memory file is missing,        *)
(* malformed or holds an earlier LOW result, and can be written or not.     *)

Flooder == [fwd |-> <<>>, ip |-> "a"]

FrameBodies == {SCENARIOS[1], SCENARIOS[2], Without(SCENARIOS[2], "routeLighting")}

FrameOutcomes ==
    {Thrown, Resolved(<<"{", "low20", "}">>, <<>>, <<>>),
     Resolved(<<"{", "high150", "}">>, <<>>, <<>>), Resolved(<<"junk">>, <<>>, <<>>)}

FrameTexts == {EmptyObj, [text |-> JsStr("hi")], [text |-> JsStr("text of 401 characters")]}

EarlierLow ==
    ObjectFile([hasMemory |-> JsBool(TRUE), lastLowScenarioId |-> JsStr("s4"),
                lastSaferAction |-> JsStr(Advice)])

InitFrame == InitWith({PlaceholderEnv, RealEnv}, {NoFile, MalformedFile, EarlierLow})

NextFrame ==
    \/ \E body \in FrameBodies, writeOk \in BOOLEAN :
          /\ MaySend(AssessSender)
          /\ pending = <<>>
          /\ RiskAssess(AssessSender, body, writeOk)
          /\ UNCHANGED <<admitLog, unreaped>>
    \/ \E body \in FrameTexts :
          /\ MaySend(AssessSender)
          /\ pending = <<>>
          /\ Tts(AssessSender, body)
          /\ UNCHANGED <<admitLog, unreaped>>
    \/ MaySend(Flooder) /\ RiskAssess(Flooder, EmptyObj, TRUE) /\ UNCHANGED <<admitLog, unreaped>>
    \/ MaySend(Flooder) /\ Tts(Flooder, EmptyObj) /\ UNCHANGED <<admitLog, unreaped>>
    \/ \E i \in 1..Len(pending), outcome \in FrameOutcomes, writeOk \in BOOLEAN :
          ProviderSettles(i, outcome, writeOk) /\ UNCHANGED <<admitLog, unreaped>>
    \/ \E i \in 1..Len(pending), outcome \in {"ok", "notOk", "throw"} :
          TtsSettles(i, outcome) /\ UNCHANGED <<admitLog, unreaped>>
    \/ GetMemoryEcho /\ UNCHANGED <<admitLog, unreaped>>
    \/ GetHealth /\ UNCHANGED <<admitLog, unreaped>>

SpecFrame == InitFrame /\ [][NextFrame]_vars

---------------------------------------------------------------------------
(* SpecLive: the risk-assess pipeline with a provider configured, in time.  *)
(* The process's own timer is fair: time passes and the interval callback   *)
(* runs. Nothing makes the provider's call settle, and the handler sets no  *)
(* timer of its own (lines 256-275).                                        *)

LiveBodies == {SCENARIOS[1], SCENARIOS[2]}

LiveOutcomes == {Thrown, Resolved(<<"{", "low20", "}">>, <<>>, <<>>)}

InitLive == InitWith({RealEnv}, {NoFile})

LiveAssess ==
    \E body \in LiveBodies :
       /\ MaySend(AssessSender)
       /\ Len(pending) < MaxInFlight
       /\ RiskAssess(AssessSender, body, TRUE)
       /\ UNCHANGED <<admitLog, unreaped>>

LiveSettles ==
    \E i \in 1..Len(pending), outcome \in LiveOutcomes :
       ProviderSettles(i, outcome, TRUE) /\ UNCHANGED <<admitLog, unreaped>>

LiveTick == ClockRuns(TickMs) /\ Tick(TickMs) /\ UNCHANGED <<admitLog, unreaped>>

LiveReaper == Reaper /\ UNCHANGED <<admitLog, unreaped>>

NextLive == LiveAssess \/ LiveSettles \/ LiveTick \/ LiveReaper

SpecLive == InitLive /\ [][NextLive]_vars /\ WF_vars(LiveTick) /\ WF_vars(LiveReaper)

---------------------------------------------------------------------------
(* SpecValidate: the validation of risk-assess. One client sends the fourth *)
(* preset without any subset of the five fields, or with null in them; the  *)
(* provider is configured or not.                                           *)

RECURSIVE WithoutAll(_, _)
WithoutAll(o, fs) ==
    IF fs = {} THEN o
    ELSE LET f == CHOOSE g \in fs : TRUE IN WithoutAll(Without(o, f), fs \ {f})

RequiredFields == {required[i] : i \in 1..Len(required)}

\* The fourth preset with null in every required field.
NullBody == [f \in DOMAIN SCENARIOS[4] |-> IF f \in RequiredFields THEN JsNull ELSE SCENARIOS[4][f]]

ValidateBodies == {WithoutAll(SCENARIOS[4], fs) : fs \in SUBSET RequiredFields} \cup {NullBody}

ValidateOutcomes == {Thrown, Resolved(<<"{", "medium55", "}">>, <<>>, <<>>)}

InitValidate == InitWith({PlaceholderEnv, RealEnv}, {NoFile})

NextValidate ==
    \/ \E body \in ValidateBodies :
          /\ MaySend(AssessSender)
          /\ Len(pending) < MaxInFlight
          /\ RiskAssess(AssessSender, body, TRUE)
          /\ UNCHANGED <<admitLog, unreaped>>
    \/ \E i \in 1..Len(pending), outcome \in ValidateOutcomes :
          ProviderSettles(i, outcome, TRUE) /\ UNCHANGED <<admitLog, unreaped>>

SpecValidate == InitValidate /\ [][NextValidate]_vars

---------------------------------------------------------------------------
(* SpecKeys: the risk-assess pipeline under every kind of GEMINI_API_KEY:   *)
(* not set, empty, holding one of the placeholder words in some letter      *)
(* case, holding none.                                                      *)

KeyEnv(k) == [RealEnv EXCEPT !.GEMINI_API_KEY = k]

PlaceholderLookingKeys ==
    {JsUndef, JsStr(""), JsStr("YOUR-api-key-here"), JsStr("my-PlaceHolder"), JsStr("CHANGEme"),
     JsStr("Replace-this"), JsStr("XXXXxxxx"), JsStr("key.Example.1"), JsStr("change")}

UsableKeys == {JsStr("AIzaSyD-4fT"), JsStr("xxx-yo-ur-chang-e"), JsStr("0")}

KeyBodies == {SCENARIOS[1], SCENARIOS[2]}

KeyOutcomes == {Thrown, Resolved(<<"{", "medium55", "}">>, <<>>, <<>>)}

InitKeys == InitWith({KeyEnv(k) : k \in PlaceholderLookingKeys \cup UsableKeys}, {NoFile})

NextKeys ==
    \/ \E body \in KeyBodies :
          /\ MaySend(AssessSender)
          /\ Len(pending) < MaxInFlight
          /\ RiskAssess(AssessSender, body, TRUE)
          /\ UNCHANGED <<admitLog, unreaped>>
    \/ \E i \in 1..Len(pending), outcome \in KeyOutcomes :
          ProviderSettles(i, outcome, TRUE) /\ UNCHANGED <<admitLog, unreaped>>

SpecKeys == InitKeys /\ [][NextKeys]_vars

---------------------------------------------------------------------------
(* SpecTts: POST /api/tts. One client sends bodies without text, with a     *)
(* text that is no string, and with strings up to 401 characters; the       *)
(* speech key and the voice id are real or placeholder-looking; fetch       *)
(* succeeds, answers a non-success status (with a payment error or          *)
(* anything else in its body) or throws.                                    *)

TtsBodies ==
    {EmptyObj, [text |-> JsNull], [text |-> JsNum(5)], [text |-> JsStr("")],
     [text |-> JsStr("hi")], [text |-> JsStr("You are safe now.")],
     [text |-> JsArr("hi")], [text |-> JsStr("text of 400 characters")],
     [text |-> JsStr("text of 401 characters")]}

TtsEnvs ==
    {RealEnv, PlaceholderEnv, [RealEnv EXCEPT !.ELEVENLABS_API_KEY = JsStr("Your_Key")],
     [RealEnv EXCEPT !.ELEVENLABS_VOICE_ID = JsStr("CHANGE_ME")]}

TtsOutcomes == {"ok", "notOk", "notOk payment_required", "throw"}

InitTts == InitWith(TtsEnvs, {NoFile})

NextTts ==
    \/ \E body \in TtsBodies :
          /\ MaySend(AssessSender)
          /\ Len(pending) < MaxInFlight
          /\ Tts(AssessSender, body)
          /\ UNCHANGED <<admitLog, unreaped>>
    \/ \E i \in 1..Len(pending), outcome \in TtsOutcomes :
          TtsSettles(i, outcome) /\ UNCHANGED <<admitLog, unreaped>>

SpecTts == InitTts /\ [][NextTts]_vars

---------------------------------------------------------------------------
(* SpecRestart: the memory across restarts. The file found at the first     *)
(* start is missing, malformed, JSON of a value that is no object, or the   *)
(* record of an earlier LOW result; requests are answered by the heuristic  *)
(* or the provider, writes succeed or fail, and the process restarts at any *)
(* moment.                                                                  *)

\* The first preset, the second, and the first with a scenarioId that
\* JSON.parse reads as Infinity (1e999).
RestartBodies == {SCENARIOS[1], SCENARIOS[2], WithId(JsInfinity)}

RestartOutcomes ==
    {Thrown, Resolved(<<"{", "low20", "}">>, <<>>, <<>>),
     Resolved(<<"{", "lowNoAction", "}">>, <<>>, <<>>)}

InitRestart == InitWith({PlaceholderEnv, RealEnv}, {NoFile, MalformedFile, ScalarFile, EarlierLow})

NextRestart ==
    \/ \E body \in RestartBodies, writeOk \in BOOLEAN :
          /\ MaySend(AssessSender)
          /\ Len(pending) < MaxInFlight
          /\ RiskAssess(AssessSender, body, writeOk)
          /\ UNCHANGED <<admitLog, unreaped>>
    \/ \E i \in 1..Len(pending), outcome \in RestartOutcomes, writeOk \in BOOLEAN :
          ProviderSettles(i, outcome, writeOk) /\ UNCHANGED <<admitLog, unreaped>>
    \/ GetMemoryEcho /\ UNCHANGED <<admitLog, unreaped>>
    \/ Restart /\ UNCHANGED <<admitLog, unreaped>>

SpecRestart == InitRestart /\ [][NextRestart]_vars

---------------------------------------------------------------------------
(* SpecGate: one client uses both POST endpoints, with bodies that pass and *)
(* bodies that fail validation, until the limiter denies it; the providers  *)
(* are configured or not, and fail when called.                             *)

GateBodies == {SCENARIOS[1], Without(SCENARIOS[2], "userAlone")}

GateTexts == {EmptyObj, [text |-> JsStr("hi")], [text |-> JsStr("text of 401 characters")]}

InitGate == InitWith({PlaceholderEnv, RealEnv}, {NoFile})

NextGate ==
    \/ \E body \in GateBodies :
          /\ MaySend(Flooder)
          /\ Len(pending) < MaxInFlight
          /\ RiskAssess(Flooder, body, TRUE)
          /\ UNCHANGED <<admitLog, unreaped>>
    \/ \E body \in GateTexts :
          /\ MaySend(Flooder)
          /\ Len(pending) < MaxInFlight
          /\ Tts(Flooder, body)
          /\ UNCHANGED <<admitLog, unreaped>>
    \/ \E i \in 1..Len(pending) : ProviderSettles(i, Thrown, TRUE) /\ UNCHANGED <<admitLog, unreaped>>
    \/ \E i \in 1..Len(pending) : TtsSettles(i, "throw") /\ UNCHANGED <<admitLog, unreaped>>

SpecGate == InitGate /\ [][NextGate]_vars

---------------------------------------------------------------------------
(* SpecReaper: the limiter with the reaper next to the limiter without it.  *)
(* Two clients send requests, time passes and the reaper runs at any        *)
(* moment from its first interval on; unreaped is the Map as the same       *)
(* requests at the same times would leave it if the reaper never ran.       *)

ReaperSenders == {SlidingSender, [fwd |-> <<>>, ip |-> ""]}

ReaperBody == Without(SCENARIOS[1], "timeOfDay")

NextReaper ==
    \/ \E req \in ReaperSenders :
          /\ MaySend(req)
          /\ RiskAssess(req, ReaperBody, TRUE)
          /\ unreaped' = rateLimitMiddleware(unreaped, ClientKey(req), now).store
          /\ UNCHANGED admitLog
    \/ ClockRuns(TickMs) /\ Tick(TickMs) /\ UNCHANGED <<admitLog, unreaped>>
    \/ Reaper /\ UNCHANGED <<admitLog, unreaped>>

SpecReaper == InitGov /\ [][NextReaper]_vars

---------------------------------------------------------------------------
(* SpecConcurrent: one client sends risk-assess requests up to its quota    *)
(* and beyond, several of them waiting for the provider at a time; the      *)
(* provider's calls settle in any order.                                    *)

ConcurrentBodies == {SCENARIOS[1], SCENARIOS[4]}

ConcurrentOutcomes ==
    {Thrown, Resolved(<<"{", "low20", "}">>, <<>>, <<>>),
     Resolved(<<"{", "medium55", "}">>, <<>>, <<>>)}

InitConcurrent == InitWith({RealEnv}, {NoFile})

NextConcurrent ==
    \/ \E body \in ConcurrentBodies :
          /\ MaySend(Flooder)
          /\ Len(pending) < MaxInFlight
          /\ RiskAssess(Flooder, body, TRUE)
          /\ UNCHANGED <<admitLog, unreaped>>
    \/ \E i \in 1..Len(pending), outcome \in ConcurrentOutcomes :
          ProviderSettles(i, outcome, TRUE) /\ UNCHANGED <<admitLog, unreaped>>

SpecConcurrent == InitConcurrent /\ [][NextConcurrent]_vars

---------------------------------------------------------------------------
(* The claims about the rate limiter.                                      *)

\* In this step a request of client ip reached the limiter.
ReachedLimiter(ip) ==
    /\ ip \in DOMAIN window'
    /\ IF ip \in DOMAIN window THEN window'[ip] # window[ip] ELSE TRUE

RateLimited(ip) ==
    /\ resp.route \in {"risk", "tts"}
    /\ resp = Json(resp.route, ip, 429, ErrorJson("rate_limited"), EmptyObj)

\* C1: counting a client's requests from the one that opened its window (and
\* up to 60 s after it), requests 1 to 30 are let through and request 31 and
\* every later one is answered 429 {error: "rate_limited"}.
C1_QuotaPerWindow ==
    [][\A ip \in DOMAIN window' :
          ReachedLimiter(ip) =>
             IF window'[ip].n <= 30 THEN resp'.status # 429 ELSE RateLimited(ip)']_vars

\* The 31st request of a window was just denied.
C1_Witness == \E ip \in DOMAIN window : window[ip].n = 31 /\ RateLimited(ip)

\* C2: a request that arrives more than 60 s after its client's window start
\* (or finds no entry) is let through and leaves the entry {count: 1, start:
\* now}; a denied request raises the count and leaves the window start.
C2_NewWindowAdmits ==
    [][\A ip \in DOMAIN window' :
          ReachedLimiter(ip) =>
             /\ (IF ip \in DOMAIN rateLimitStore
                 THEN now - rateLimitStore[ip].start > 60 * 1000 ELSE TRUE)
                => /\ resp'.status # 429
                   /\ rateLimitStore'[ip] = [count |-> 1, start |-> now]
             /\ resp'.status = 429
                => /\ ip \in DOMAIN rateLimitStore
                   /\ rateLimitStore'[ip] = [count |-> rateLimitStore[ip].count + 1,
                                             start |-> rateLimitStore[ip].start]]_vars

\* A client whose last window ended with denied requests was just let through
\* again, its entry reset.
C2_Witness ==
    \E ip \in DOMAIN window :
        /\ window[ip].over /\ window[ip].n = 1 /\ window[ip].open = now
        /\ resp.ip = ip /\ resp.status \in {200, 400}
        /\ rateLimitStore[ip] = [count |-> 1, start |-> now]

\* C3 as claimed: in every interval of 60 s at most 30 requests of a client
\* are let through.
C3_SlidingWindow == \A ip \in DOMAIN admitLog : AdmittedLately(ip) <= 30

\* C3 as amended: the counter is a fixed-window one. At most 30 requests are
\* let through in the 60 s from a window start, and an interval of 60 s, which
\* can straddle two windows, holds at most 60 admitted requests.
C3_FixedWindow ==
    /\ \A ip \in DOMAIN window : window[ip].passed <= 30
    /\ \A ip \in DOMAIN admitLog : AdmittedLately(ip) <= 2 * 30

\* More than 30 requests were admitted within 60 s, across two windows.
C3_Witness ==
    \E ip \in DOMAIN admitLog :
        AdmittedLately(ip) > 30 /\ window[ip].passed <= 30 /\ window[ip].open = now

---------------------------------------------------------------------------
(* The claims about the risk-assess pipeline, under Spec.                  *)

\* The last step answered a risk-assess request whose body had the five fields.
AnsweredValid == resp.route = "risk" /\ resp.status # 429 /\ firstMissing(resp.req) = 0

FallbackAnswer(body) == With(fallbackRisk(body), "model", JsStr("fallback"))

\* The provider failed: its call threw, its text holds no JSON value even
\* between the first "{" and the last "}", the value is no object, or the
\* object has no riskScore or one no number can be read from (a text that is
\* no numeral, a numeral beyond the range of numbers).
ProviderFailed(p) ==
    \/ p.kind = "throw"
    \/ /\ p.kind = "text"
       /\ \/ p.parsed.threw
          \/ ~p.parsed.isObject
          \/ "riskScore" \notin DOMAIN p.parsed.obj
          \/ p.parsed.obj["riskScore"] \in {JsStr("abc"), JsInfinity}

\* C4: an admitted risk-assess request with the five fields is answered 200
\* with a JSON result tagged with its model, whatever the provider does; when
\* the provider failed the answer is exactly fallbackRisk(body) tagged
\* "fallback".
C4_ProviderFailureFallsBack ==
    AnsweredValid =>
       /\ resp.status = 200 /\ resp.type = "json"
       /\ Get(resp.json, "model") \in {JsStr("fallback"), JsStr("gemini")}
       /\ "riskScore" \in DOMAIN resp.json
       /\ ProviderFailed(resp.provider) => resp.json = FallbackAnswer(resp.req)

\* The provider threw, and the HIGH preset was answered by the heuristic.
C4_Witness ==
    /\ AnsweredValid /\ resp.provider.kind = "throw"
    /\ resp.req = SCENARIOS[2] /\ resp.json = FallbackAnswer(SCENARIOS[2])
    /\ Get(resp.json, "riskScore") = JsNum(70)

\* A value that is a finite number (not a text, a boolean, null or an array
\* that Number() would read as one).
FiniteNumber(v) == v.t = "number" /\ v.s \in {"", ".5"}

\* C6 as claimed: when the riskScore of the parsed provider object is not a
\* finite number the answer is the fallback result tagged "fallback"; the
\* provider's fields are used only when riskScore is a finite number.
C6_NonFiniteScoreFallsBack ==
    (AnsweredValid /\ resp.provider.kind = "text" /\ resp.provider.parsed.isObject) =>
       IF FiniteNumber(Get(resp.provider.parsed.obj, "riskScore"))
       THEN Get(resp.json, "model") = JsStr("gemini")
       ELSE resp.json = FallbackAnswer(resp.req)

C10_WellFormedResult ==
    (resp.route = "risk" /\ resp.status = 200) =>
       /\ Get(resp.json, "riskScore").t = "number"
       /\ Get(resp.json, "riskScore").s = ""
       /\ Get(resp.json, "riskScore").n \in 0..100
       /\ Get(resp.json, "riskLevel") \in {JsStr("LOW"), JsStr("MEDIUM"), JsStr("HIGH")}
       /\ Get(resp.json, "model") \in {JsStr("fallback"), JsStr("gemini")}

---------------------------------------------------------------------------
(* The claim about fallbackRisk, under SpecFallback.                       *)

\* The score as the specification writes it, absent fields adding nothing.
C9_Score(input) ==
    (IF Get(input, "timeOfDay") = JsStr("night") THEN 25 ELSE 0)
    + (IF Get(input, "userAlone") = JsBool(TRUE) THEN 25 ELSE 0)
    + (IF Get(input, "neighborhoodType") = JsStr("industrial") THEN 20
       ELSE IF Get(input, "neighborhoodType") = JsStr("downtown") THEN 10 ELSE 0)
    + (IF Get(input, "routeLighting") = JsStr("poor") THEN 20
       ELSE IF Get(input, "routeLighting") = JsStr("mixed") THEN 10 ELSE 0)

C9_Returned ==
    resp.route = "fallbackRisk" =>
       LET score == Get(resp.json, "riskScore")
           level == Get(resp.json, "riskLevel")
       IN  /\ score = JsNum(C9_Score(resp.req))
           /\ score.n \in 0..100
           /\ level \in {JsStr("LOW"), JsStr("MEDIUM"), JsStr("HIGH")}
           /\ level = JsStr("HIGH") <=> score.n >= 70
           /\ level = JsStr("MEDIUM") <=> (40 <= score.n /\ score.n < 70)
           /\ level = JsStr("LOW") <=> score.n < 40

C9_SameAgain ==
    (resp.route = "fallbackRisk" /\ resp'.route = "fallbackRisk" /\ resp'.req = resp.req)
       => resp'.json = resp.json

\* C9: over the 144 inputs, fallbackRisk returns the score 25*[night] +
\* 25*[alone] + (20 if industrial, else 10 if downtown) + (20 if poor, else 10
\* if mixed), which lies in 0..100, with the level HIGH iff score >= 70, MEDIUM
\* iff 40 <= score < 70, LOW iff score < 40; a second call on the same input
\* returns the same result.
C9_FallbackRisk == [](C9_Returned) /\ [][C9_SameAgain]_vars

\* The second call returned: at night, alone, industrial, poor lighting the
\* score is 90 and HIGH; the input with no field at all has been through too.
C9_Witness ==
    /\ resp.route = "fallbackRisk" /\ pending = <<>>
    /\ resp.req = InputOf([timeOfDay |-> JsStr("night"), userAlone |-> JsBool(TRUE),
                           neighborhoodType |-> JsStr("industrial"),
                           routeLighting |-> JsStr("poor")])
    /\ Get(resp.json, "riskScore") = JsNum(90)
    /\ Get(resp.json, "riskLevel") = JsStr("HIGH")

---------------------------------------------------------------------------
(* The claim about what changes the memory, under SpecFrame.               *)

\* The step answered a risk-assess request 200 with riskLevel LOW.
C8_AnsweredLow ==
    /\ resp'.route = "risk" /\ resp'.status = 200
    /\ Get(resp'.json, "riskLevel") = JsStr("LOW")

\* hasMemory as the file holds it
FileHasMemory(file) == file.state = "object" /\ Get(file.obj, "hasMemory") = JsBool(TRUE)

\* C8: the memory record, in memory and on disk, changes only in a step that
\* answers a risk-assess request with riskLevel LOW (so not in one answered
\* MEDIUM or HIGH, 400 or 429, nor in a GET or a tts request), and no step
\* sets hasMemory back to false.
C8_MemoryFrame ==
    [][/\ (MEMORY' # MEMORY \/ memoryFile' # memoryFile) => C8_AnsweredLow
       /\ MEMORY.hasMemory => MEMORY'.hasMemory
       /\ FileHasMemory(memoryFile) => FileHasMemory(memoryFile')]_vars

\* With the LOW result of the first preset in the memory and a second request
\* of that client gone by, a risk-assess request is denied by the limiter.
C8_Witness ==
    /\ MEMORY.hasMemory /\ MEMORY.lastLowScenarioId = JsStr("s1")
    /\ resp.route = "risk" /\ resp.status = 429
    /\ ClientKey(AssessSender) \in DOMAIN rateLimitStore
    /\ rateLimitStore[ClientKey(AssessSender)].count >= 2

---------------------------------------------------------------------------
(* The claim about a provider that never answers, under SpecLive.          *)

\* C5 as claimed: a risk-assess request that waits for the provider is
\* eventually answered, whether the provider's call completes or not: no
\* handler stays suspended for ever.
C5_EventuallyAnswered == (pending # <<>>) ~> (pending = <<>>)

---------------------------------------------------------------------------
(* The claim about validation, under SpecValidate.                         *)

\* The places in the order of the five fields that body lacks.
C11_Missing(body) == {i \in 1..Len(required) : required[i] \notin DOMAIN body}

\* C11: a risk-assess request that lacks any of the five fields is answered
\* 400 with error missing_<field> for the first field it lacks, in the order
\* scenarioId, timeOfDay, userAlone, neighborhoodType, routeLighting; the
\* answer holds nothing else (no result, no field filled in), no provider call
\* is started and the memory is left alone.
C11_MissingField ==
    [][(resp'.route = "risk" /\ resp'.status # 429 /\ C11_Missing(resp'.req) # {}) =>
          LET first == CHOOSE i \in C11_Missing(resp'.req) :
                          \A j \in C11_Missing(resp'.req) : i <= j
          IN  /\ resp'.status = 400
              /\ resp'.json = [error |-> JsStr("missing_" \o required[first])]
              /\ UNCHANGED <<pending, MEMORY, memoryFile>>]_vars

\* A request without userAlone and routeLighting was answered missing_userAlone.
C11_Witness ==
    /\ resp.route = "risk" /\ resp.status = 400
    /\ C11_Missing(resp.req) = {3, 5}
    /\ resp.json = [error |-> JsStr("missing_userAlone")]

---------------------------------------------------------------------------
(* The claim about the credential, under SpecKeys.                         *)

\* The keys among those tried that are absent, empty or hold one of the
\* words your, placeholder, change, replace, xxxx, example in some letter case.
C12_LooksPlaceholder ==
    env.GEMINI_API_KEY \in
       {JsUndef, JsStr(""), JsStr("YOUR-api-key-here"), JsStr("my-PlaceHolder"),
        JsStr("CHANGEme"), JsStr("Replace-this"), JsStr("XXXXxxxx"), JsStr("key.Example.1"),
        JsStr("change")}

C12_Answered ==
    (C12_LooksPlaceholder /\ resp'.route = "risk" /\ resp'.status # 429) =>
       /\ resp'.status = 200
       /\ resp'.json = With(fallbackRisk(resp'.req), "model", JsStr("fallback"))
       /\ resp'.provider.kind = "none"

\* C12: with a credential that is absent, empty or placeholder-looking in any
\* letter case, no provider call is ever started or waited for, and every
\* valid risk-assess request is answered at once with fallbackRisk(body)
\* tagged "fallback".
C12_PlaceholderKeyFallsBack ==
    [](C12_LooksPlaceholder => pending = <<>>) /\ [][C12_Answered]_vars

\* With the key "my-PlaceHolder" the HIGH preset was answered by the heuristic.
C12_Witness ==
    /\ env.GEMINI_API_KEY = JsStr("my-PlaceHolder")
    /\ resp.route = "risk" /\ resp.req = SCENARIOS[2]
    /\ Get(resp.json, "model") = JsStr("fallback")
    /\ Get(resp.json, "riskScore") = JsNum(70)

---------------------------------------------------------------------------
(* The claim about a memory file that cannot be written, under Spec.       *)

\* The step answered a risk-assess request with riskLevel LOW and its save
\* failed: the file does not hold the record of the memory afterwards.
C13_LowUnsaved ==
    /\ resp'.route = "risk" /\ resp'.status # 429
    /\ Get(resp'.json, "riskLevel") = JsStr("LOW")
    /\ memoryFile' # [state |-> "object",
                      obj |-> [hasMemory |-> JsBool(MEMORY'.hasMemory),
                               lastLowScenarioId |-> MEMORY'.lastLowScenarioId,
                               lastSaferAction |-> MEMORY'.lastSaferAction]]

C13_Remembered ==
    C13_LowUnsaved =>
       /\ resp'.status = 200 /\ resp'.type = "json"
       /\ Get(resp'.json, "model") \in {JsStr("fallback"), JsStr("gemini")}
       /\ MEMORY'.hasMemory
       /\ MEMORY'.lastLowScenarioId =
             (IF Truthy(Get(resp'.req, "scenarioId")) THEN Get(resp'.req, "scenarioId") ELSE JsNull)
       /\ MEMORY'.lastSaferAction =
             (IF Truthy(Get(resp'.json, "saferAction")) THEN Get(resp'.json, "saferAction")
              ELSE JsNull)
       /\ memoryFile' = memoryFile

C13_EchoShowsMemory ==
    resp.route = "memory-echo" =>
       /\ resp.status = 200
       /\ resp.json = [hasMemory |-> JsBool(MEMORY.hasMemory),
                       lastLowScenarioId |-> MEMORY.lastLowScenarioId,
                       lastSaferAction |-> MEMORY.lastSaferAction]

\* C13: when the memory file cannot be written, a LOW result is still
\* answered 200 with its result, the memory holds the new values and
\* memory-echo shows them, and the file keeps the content it had.
C13_SaveFailureSwallowed == [](C13_EchoShowsMemory) /\ [][C13_Remembered]_vars

\* No write has succeeded (the file is still missing), the memory holds the
\* LOW result of the second preset as the provider gave it, and memory-echo,
\* a later request, shows it.
C13_Witness ==
    /\ memoryFile = NoFile
    /\ MEMORY.hasMemory /\ MEMORY.lastLowScenarioId = JsStr("s2")
    /\ resp.route = "memory-echo"
    /\ Get(resp.json, "lastLowScenarioId") = JsStr("s2")
    /\ Get(resp.json, "lastSaferAction") = JsStr(Advice)

---------------------------------------------------------------------------
(* The claim about POST /api/tts, under SpecTts.                           *)

\* The speech key or the voice id is absent, empty or holds a placeholder word.
C14_NotConfigured == env # RealEnv

C14_Length(x) ==
    IF x = "text of 400 characters" THEN 400
    ELSE IF x = "text of 401 characters" THEN 401 ELSE Len(x)

C14_Fallback(text) ==
    [ok |-> JsBool(FALSE), fallback |-> JsBool(TRUE), provider |-> JsStr("browser_tts"),
     text |-> text, reason |-> JsStr("elevenlabs_unavailable")]

C14_Decided ==
    (resp'.route = "tts" /\ resp'.status # 429) =>
       LET text == Get(resp'.req, "text")
       IN  IF text.t # "string"
           THEN resp'.status = 400 /\ resp'.json = [error |-> JsStr("missing_text")]
           ELSE IF C14_Length(text.s) > 400
           THEN resp'.status = 400 /\ resp'.json = [error |-> JsStr("text_too_long")]
           ELSE IF C14_NotConfigured
           THEN /\ resp'.status = 500
                /\ resp'.json = [error |-> JsStr("elevenlabs_not_configured")]
           ELSE IF \E i \in 1..Len(pending) : TtsSettles(i, "ok")
           THEN resp'.status = 200 /\ resp'.type = "audio"
           ELSE /\ resp'.status = 200 /\ resp'.type = "json"
                /\ resp'.json = C14_Fallback(text)

\* C14: an admitted tts request is answered 400 missing_text when text is no
\* string, else 400 text_too_long when it is longer than 400 (400 itself
\* passes), else 500 elevenlabs_not_configured when the key or the voice id
\* looks like a placeholder, else audio when the provider succeeds and
\* otherwise exactly the five-field browser_tts fallback with the text sent.
C14_TtsDecision == [][C14_Decided]_vars

\* A text of exactly 400 characters got past both checks and, the provider
\* answering a non-success status, was answered with the fallback.
C14_Witness ==
    /\ resp.route = "tts" /\ resp.status = 200 /\ resp.type = "json"
    /\ Get(resp.req, "text") = JsStr("text of 400 characters")
    /\ Get(resp.json, "reason") = JsStr("elevenlabs_unavailable")

---------------------------------------------------------------------------
(* The claim about loading the memory, under SpecRestart.                  *)

\* No POST request has come since the file was loaded: the memory is as loaded.
C15_JustLoaded == rateLimitStore = EmptyMap

C15_Default == [hasMemory |-> FALSE, lastLowScenarioId |-> JsNull, lastSaferAction |-> JsNull]

\* The record as JSON shows it.
C15_Shown(m) ==
    [hasMemory |-> JsBool(m.hasMemory), lastLowScenarioId |-> m.lastLowScenarioId,
     lastSaferAction |-> m.lastSaferAction]

\* A missing or malformed file loads as the default record; a file that holds
\* a saved record loads as that record.
C15_Loaded ==
    C15_JustLoaded =>
       IF memoryFile.state \in {"missing", "malformed"} THEN MEMORY = C15_Default
       ELSE memoryFile.state = "object" => C15_Shown(MEMORY) = memoryFile.obj

\* A save that succeeds writes the record of the LOW result just produced, as
\* memory-echo shows it.
C15_Saved ==
    memoryFile' # memoryFile =>
       /\ memoryFile'.state = "object"
       /\ memoryFile'.obj = MemoryJson(MEMORY')
       /\ Get(memoryFile'.obj, "hasMemory") = JsBool(TRUE)
       /\ Get(resp'.json, "riskLevel") = JsStr("LOW")

\* Over a restart the file stays, and memory-echo shows what the file holds.
C15_Restarted ==
    (Restart /\ memoryFile.state = "object") =>
       /\ memoryFile' = memoryFile
       /\ MemoryJson(MEMORY') = memoryFile.obj

\* C15: loading never fails: a missing or malformed file gives the default
\* record, and a load after a successful save gives the record that was
\* saved, so that after a restart memory-echo shows the last LOW result that
\* was persisted.
C15_LoadRoundTrip == [](C15_Loaded) /\ [][C15_Saved /\ C15_Restarted]_vars

\* After a restart the memory holds the provider's LOW result for the second
\* preset, which was saved, although a later LOW result was not.
C15_Witness ==
    /\ C15_JustLoaded /\ resp = NoResp
    /\ memoryFile.state = "object"
    /\ MEMORY = [hasMemory |-> TRUE, lastLowScenarioId |-> JsStr("s2"),
                 lastSaferAction |-> JsStr(Advice)]
    /\ lastLow.any /\ lastLow.scenarioId = JsStr("s1")

---------------------------------------------------------------------------
(* The claim about a provider answer that is used, under Spec.             *)

\* A finite number brought into 0..100.
C16_Clamped(v) == IF v.n < 0 THEN JsNum(0) ELSE IF v.n >= 100 THEN JsNum(100) ELSE v

\* The provider's text parsed to an object whose riskScore is a finite number.
C16_ProviderObject(r) ==
    /\ r.route = "risk" /\ r.status # 429 /\ r.provider.kind = "text"
    /\ r.provider.parsed.isObject
    /\ FiniteNumber(Get(r.provider.parsed.obj, "riskScore"))

C16_AsGiven ==
    C16_ProviderObject(resp) =>
       LET given == resp.provider.parsed.obj
       IN  /\ resp.status = 200
           /\ DOMAIN resp.json = DOMAIN given \cup {"model"}
           /\ resp.json["model"] = JsStr("gemini")
           /\ resp.json["riskScore"] = C16_Clamped(given["riskScore"])
           /\ \A f \in DOMAIN given \ {"riskScore", "model"} : resp.json[f] = given[f]

C16_LowRemembered ==
    (C16_ProviderObject(resp') /\ Get(resp'.provider.parsed.obj, "riskLevel") = JsStr("LOW")) =>
       /\ MEMORY'.hasMemory
       /\ MEMORY'.lastLowScenarioId = OrNull(Get(resp'.req, "scenarioId"))
       /\ MEMORY'.lastSaferAction = OrNull(Get(resp'.provider.parsed.obj, "saferAction"))

\* C16: a provider object with a finite riskScore is answered as it is, with
\* riskScore clamped into 0..100 and model "gemini"; riskLevel is not
\* recomputed, and a riskLevel of LOW updates the memory whatever the score.
C16_ProviderTrusted == [](C16_AsGiven) /\ [][C16_LowRemembered]_vars

\* The provider gave score 95 with riskLevel LOW for the HIGH preset: answered
\* as LOW with 95, and remembered.
C16_Witness ==
    /\ resp.route = "risk" /\ resp.req = SCENARIOS[2]
    /\ Get(resp.json, "riskScore") = JsNum(95)
    /\ Get(resp.json, "riskLevel") = JsStr("LOW")
    /\ Get(resp.json, "model") = JsStr("gemini")
    /\ MEMORY.hasMemory /\ MEMORY.lastLowScenarioId = JsStr("s2")

---------------------------------------------------------------------------
(* The claim about the limiter as the first gate, under SpecGate.          *)

\* The count of ip's running window before the step, 0 when it has none.
C17_CountBefore(ip) ==
    IF ip \in DOMAIN rateLimitStore /\ ~(now - rateLimitStore[ip].start > 60 * 1000)
    THEN rateLimitStore[ip].count ELSE 0

\* The step is the same whatever body the request carries.
C17_AnyBody ==
    \/ \A body \in GateBodies : RiskAssess(Flooder, body, TRUE)
    \/ \A body \in GateTexts : Tts(Flooder, body)

C17_Gated ==
    \A ip \in DOMAIN window' :
       ReachedLimiter(ip) =>
          /\ rateLimitStore'[ip].count = C17_CountBefore(ip) + 1
          /\ IF C17_CountBefore(ip) + 1 > 30
             THEN /\ resp'.status = 429 /\ resp'.json = [error |-> JsStr("rate_limited")]
                  /\ C17_AnyBody
                  /\ UNCHANGED <<MEMORY, memoryFile, pending>>
             ELSE resp'.status # 429

\* C17: every POST request, to either endpoint and whatever becomes of it,
\* raises its client's one count by one; once that count passes 30 the
\* request is answered 429 whatever its body, before validation, provider,
\* heuristic and memory; up to 30 it is not.
C17_FirstGate == [][C17_Gated]_vars

\* The 31st request of a client that used both endpoints, among them requests
\* answered 400 and 500 and one remembered as LOW, is a tts request and is
\* denied.
C17_Witness ==
    /\ resp.route = "tts" /\ resp.status = 429
    /\ "a" \in DOMAIN window /\ window["a"].n = 31
    /\ MEMORY.hasMemory

---------------------------------------------------------------------------
(* The claim about the reaper, under SpecReaper.                           *)

\* The step is a run of the reaper (no request, no time passing).
C18_Scan == resp' = NoResp /\ now' = now /\ unreaped' = unreaped

\* A run of the reaper removes the entries whose window started more than
\* 120 s before, and no other, and leaves the rest as they are.
C18_RemovesExactly ==
    C18_Scan =>
       /\ DOMAIN rateLimitStore' =
             {ip \in DOMAIN rateLimitStore : ~(now - rateLimitStore[ip].start > 120 * 1000)}
       /\ \A ip \in DOMAIN rateLimitStore' : rateLimitStore'[ip] = rateLimitStore[ip]

\* A request is denied exactly when the limiter whose Map was never reaped
\* denies it.
C18_SameDecision ==
    \A ip \in DOMAIN window' :
       ReachedLimiter(ip) =>
          (resp'.status = 429 <=> ~rateLimitMiddleware(unreaped, ip, now).next)

\* C18: a run of the reaper removes exactly the entries whose window started
\* more than 120 s before it, and every request gets the decision it would
\* get had the reaper never run.
C18_ReaperInvisible == [][C18_RemovesExactly /\ C18_SameDecision]_vars

\* The reaper has removed the entry of one client; the other, denied in its
\* last window, has opened a new one and was let through.
C18_Witness ==
    /\ "a" \in DOMAIN unreaped /\ "a" \in DOMAIN rateLimitStore
    /\ "a" \in DOMAIN window /\ window["a"].over /\ window["a"].n = 1
    /\ "unknown" \in DOMAIN unreaped /\ "unknown" \notin DOMAIN rateLimitStore
    /\ resp.route = "risk" /\ resp.status = 400 /\ resp.ip = "a"

---------------------------------------------------------------------------
(* The claim about requests in flight together, under SpecConcurrent.      *)

\* The memory is the default record, or the record of the one request whose
\* LOW result was produced last.
C19_OneRequest ==
    IF lastLow.any
    THEN MEMORY = [hasMemory |-> TRUE,
                   lastLowScenarioId |-> OrNull(lastLow.scenarioId),
                   lastSaferAction |-> OrNull(lastLow.saferAction)]
    ELSE MEMORY = [hasMemory |-> FALSE, lastLowScenarioId |-> JsNull,
                   lastSaferAction |-> JsNull]

\* Whichever of the waiting handlers is resumed, a LOW result leaves its own
\* scenarioId and saferAction in the memory.
C19_CompletionOrder ==
    \A i \in 1..Len(pending), outcome \in ConcurrentOutcomes :
       (ProviderSettles(i, outcome, TRUE) /\ Get(resp'.json, "riskLevel") = JsStr("LOW")) =>
          /\ MEMORY'.lastLowScenarioId = Get(pending[i].body, "scenarioId")
          /\ MEMORY'.lastSaferAction = Get(resp'.json, "saferAction")

\* A request is denied by its place among the arrivals of its window, whatever
\* is in flight.
C19_ArrivalDecides ==
    \A ip \in DOMAIN window' :
       ReachedLimiter(ip) => (resp'.status = 429 <=> window'[ip].n > 30)

\* C19: with several requests waiting for the provider and resumed in any
\* order, the memory is always the default record or the scenarioId and
\* saferAction of the one request whose LOW result came last, and a request
\* is admitted or denied by its place in the order of arrival alone.
C19_NoMixedMemory == [](C19_OneRequest) /\ [][C19_CompletionOrder /\ C19_ArrivalDecides]_vars

\* One handler got its LOW result from the provider and left it in the
\* memory while another, for the other preset, is still waiting.
C19_Witness ==
    /\ Len(pending) = 1
    /\ resp.route = "risk" /\ resp.provider.kind = "text"
    /\ Get(resp.json, "riskLevel") = JsStr("LOW")
    /\ pending[1].body # resp.req
    /\ MEMORY.lastLowScenarioId = Get(resp.req, "scenarioId")
    /\ MEMORY.lastSaferAction = JsStr(Advice)

===========================================================================
